---- MODULE Spec2Model ----
(***************************************************************************)
(* Flying Toilet (src/main.js, lines 1-970): the simulation core of the    *)
(* game - player physics, pipe field, difficulty, scoring, the mode state  *)
(* machine - and the input handlers that drive it.                         *)
(*                                                                         *)
(* Units.  The source computes in floating-point pixels.  Every quantity   *)
(* the source adds to a position or a velocity is a multiple of 0.01 px   *)
(* (gravity 0.3, flapPower -6.5, speeds 1.2 + k * 0.12), so lengths and    *)
(* velocities are integers counting 1/100 px: 600 px is 60000.  Frames,    *)
(* scores, levels and click coordinates (whole game pixels) are unscaled.  *)
(* Arithmetic is exact; the rounding of IEEE doubles is not modelled.      *)
(***************************************************************************)
EXTENDS Integers, Sequences, FiniteSets, TLC

VARIABLES
    current,      \* gameState.current
    score,        \* gameState.score
    highScore,    \* gameState.highScore
    frame,        \* gameState.frame
    isMuted,      \* gameState.isMuted
    level,        \* gameState.level
    pipesPassed,  \* gameState.pipesPassed
    bestLevel,    \* gameState.bestLevel
    showingHelp,  \* gameState.showingHelp
    y,            \* toilet.y
    velocity,     \* toilet.velocity
    list,         \* pipes.list
    bgMusic,      \* TRUE while bgMusic is playing (play() called, not paused)
    hits,         \* audio.playHit() calls since the last restart()
    store,        \* how localStorage behaves: "ok", "readonly" (setItem
                  \* throws), "denied" (every access throws)
    saved,        \* the item 'flyingToiletData' of localStorage
    scriptRan,    \* the script ran to its last line: listeners are registered
    looping       \* gameLoop has requested its next animation frame

vars == <<current, score, highScore, frame, isMuted, level, pipesPassed,
          bestLevel, showingHelp, y, velocity, list, bgMusic, hits,
          store, saved, scriptRan, looping>>

----------------------------------------------------------------------------
(* CONFIG and the literals of the source, in 1/100 px where they are lengths *)

GAME_WIDTH == 60000
GAME_HEIGHT == 60000
gravity == 30
flapPower == 0 - 650
maxVelocity == 700
pipeWidth == 6000
baseSpeed == 120
maxSpeed == 350
speedIncrement == 12
baseGap == 20000
minGap == 15000
gapDecrement == 200
baseSpawnInterval == 180
minSpawnInterval == 110
spawnDecrement == 3
pipesPerLevel == 8
groundHeight == 5000
toilet_x == 8000
toilet_width == 4000
toilet_height == 4000

START == "START"
PLAYING == "PLAYING"
PAUSED == "PAUSED"
GAME_OVER == "GAME_OVER"
\* the STATE object (STATE is a reserved word of TLA+)
Modes == {START, PLAYING, PAUSED, GAME_OVER}

----------------------------------------------------------------------------
(* Bounds of the exploration *)

\* Math.random() returns one of RandomPercents / 100.
RandomPercents == {50}
\* While PLAYING the player flaps only on the tick the toilet falls through
\* the height FlapLine (or lets it fall) ...
FlapLine == 29500
\* ... except on the frames FreeFlapFrom .. FreeFlapTo - 1, where the player
\* flaps at will.
FreeFlapFrom == 7155
FreeFlapTo == 7164
\* No tick is taken in PLAYING once frame has reached MaxFrame.
MaxFrame == 7212
\* The player toggles mute before or after a round, or in its first
\* MuteFrames frames.
MuteFrames == 300
\* In free flight no tick is taken in PLAYING once frame has reached
\* MaxFlightFrame, and the player flaps only on every FlapEvery-th frame.
MaxFlightFrame == 56
FlapEvery == 3
\* With the store drawn, no tick is taken in PLAYING once frame has reached
\* MaxStoreFrame, and the player flaps only on every StoreFlapEvery-th frame.
MaxStoreFrame == 75
StoreFlapEvery == 15
\* toilet.update is applied DropTicks times to a toilet dropped at a height
\* of 0 .. MaxDropY whole tens of pixels.
DropTicks == 2
MaxDropY == 51
\* A round left alone is followed for at most MaxIdleTicks + 1 ticks.
MaxIdleTicks == 106
\* The functions of the toilet and the pipes are applied on the levels
\* 1 .. MaxLevel, to pipes of the random heights FnRandomPercents / 100, for
\* FnTicks ticks around a spawn frame.
MaxLevel == 30
FnRandomPercents == {0, 50, 99}
FnTicks == 3

----------------------------------------------------------------------------
(* The mutable program state as one record, threaded through the handlers. *)
(* Its field thrown is TRUE while an exception is propagating: the code     *)
(* that follows the throw is skipped up to the event handler or the frame   *)
(* callback it ends.                                                        *)

Here == [current |-> current, score |-> score, highScore |-> highScore,
         frame |-> frame, isMuted |-> isMuted, level |-> level,
         pipesPassed |-> pipesPassed, bestLevel |-> bestLevel,
         showingHelp |-> showingHelp, y |-> y, velocity |-> velocity,
         list |-> list, bgMusic |-> bgMusic, hits |-> hits,
         store |-> store, saved |-> saved, scriptRan |-> scriptRan,
         looping |-> looping, thrown |-> FALSE]

Commit(s) ==
    /\ current' = s.current
    /\ score' = s.score
    /\ highScore' = s.highScore
    /\ frame' = s.frame
    /\ isMuted' = s.isMuted
    /\ level' = s.level
    /\ pipesPassed' = s.pipesPassed
    /\ bestLevel' = s.bestLevel
    /\ showingHelp' = s.showingHelp
    /\ y' = s.y
    /\ velocity' = s.velocity
    /\ list' = s.list
    /\ bgMusic' = s.bgMusic
    /\ hits' = s.hits
    /\ store' = s.store
    /\ saved' = s.saved
    /\ scriptRan' = s.scriptRan
    /\ looping' = s.looping

Max(a, b) == IF a > b THEN a ELSE b
Min(a, b) == IF a < b THEN a ELSE b

----------------------------------------------------------------------------
(* local storage *)

\* the item is absent
NoData == [kind |-> "none", highScore |-> 0, isMuted |-> FALSE, bestLevel |-> 0]

\* the item is a string JSON.parse rejects, or JSON without properties
CorruptData ==
    [kind |-> "corrupt", highScore |-> 0, isMuted |-> FALSE, bestLevel |-> 0]

\* the item as saveGameData writes it
SavedData(h, m, b) ==
    [kind |-> "data", highScore |-> h, isMuted |-> m, bestLevel |-> b]

\* loadGameData with localStorage.getItem outside its try block
loadGameData(s) ==
    IF s.store = "denied" THEN [s EXCEPT !.thrown = TRUE]
    ELSE IF s.saved.kind = "data"
    THEN [s EXCEPT !.highScore = IF s.saved.highScore # 0
                                 THEN s.saved.highScore ELSE 0,
                   !.isMuted = IF s.saved.isMuted THEN TRUE ELSE FALSE,
                   !.bestLevel = IF s.saved.bestLevel # 0
                                 THEN s.saved.bestLevel ELSE 1]
    ELSE s

saveGameData(s) ==
    IF s.store = "ok"
    THEN [s EXCEPT !.saved = SavedData(s.highScore, s.isMuted, s.bestLevel)]
    ELSE [s EXCEPT !.thrown = TRUE]

----------------------------------------------------------------------------
(* audio *)

startMusic(s) == IF ~s.isMuted THEN [s EXCEPT !.bgMusic = TRUE] ELSE s

stopMusic(s) == [s EXCEPT !.bgMusic = FALSE]

toggleMute(s) ==
    LET m == ~s.isMuted
    IN  saveGameData([s EXCEPT !.isMuted = m, !.bgMusic = ~m])

----------------------------------------------------------------------------
(* game logic *)

\* endGame without its mode test
endGame_unguarded(s) ==
    LET s1 == stopMusic([s EXCEPT !.current = GAME_OVER, !.hits = @ + 1])
    IN  saveGameData(
            [s1 EXCEPT !.highScore = IF s.score > @ THEN s.score ELSE @,
                       !.bestLevel = IF s.level > @ THEN s.level ELSE @])

endGame(s) ==
    IF s.current # GAME_OVER
    THEN LET s1 == stopMusic([s EXCEPT !.current = GAME_OVER, !.hits = @ + 1])
         IN  saveGameData(
                 [s1 EXCEPT !.highScore = IF s.score > @ THEN s.score ELSE @,
                            !.bestLevel = IF s.level > @ THEN s.level ELSE @])
    ELSE s

\* restart that also clears the records
restart_all(s) ==
    startMusic([s EXCEPT !.current = PLAYING,
                         !.score = 0,
                         !.highScore = 0,
                         !.frame = 0,
                         !.level = 1,
                         !.pipesPassed = 0,
                         !.bestLevel = 1,
                         !.y = GAME_HEIGHT \div 2,
                         !.velocity = 0,
                         !.list = <<>>,
                         !.hits = 0])

\* restart that keeps the count of passed pipes
restart_keepPassed(s) ==
    startMusic([s EXCEPT !.current = PLAYING,
                         !.score = 0,
                         !.frame = 0,
                         !.level = 1,
                         !.y = GAME_HEIGHT \div 2,
                         !.velocity = 0,
                         !.list = <<>>,
                         !.hits = 0])

restart(s) ==
    startMusic([s EXCEPT !.current = PLAYING,
                         !.score = 0,
                         !.frame = 0,
                         !.level = 1,
                         !.pipesPassed = 0,
                         !.y = GAME_HEIGHT \div 2,
                         !.velocity = 0,
                         !.list = <<>>,
                         !.hits = 0])

\* togglePause that pauses from every mode but PAUSED
togglePause_anyMode(s) ==
    IF s.current # PAUSED
    THEN [s EXCEPT !.current = PAUSED, !.bgMusic = FALSE]
    ELSE [s EXCEPT !.current = PLAYING,
                   !.bgMusic = IF ~s.isMuted THEN TRUE ELSE @]

togglePause(s) ==
    IF s.current = PLAYING
    THEN [s EXCEPT !.current = PAUSED, !.bgMusic = FALSE]
    ELSE IF s.current = PAUSED
         THEN [s EXCEPT !.current = PLAYING,
                        !.bgMusic = IF ~s.isMuted THEN TRUE ELSE @]
         ELSE s

----------------------------------------------------------------------------
(* toilet *)

\* flap that adds its impulse to the velocity
flap_additive(s) ==
    IF s.current # GAME_OVER
    THEN LET s1 == [s EXCEPT !.velocity = @ + flapPower]
         IN  IF s1.current = START
             THEN startMusic([s1 EXCEPT !.current = PLAYING])
             ELSE s1
    ELSE s

\* flap without its mode test
flap_noGuard(s) ==
    LET s1 == [s EXCEPT !.velocity = flapPower]
    IN  IF s1.current = START
        THEN startMusic([s1 EXCEPT !.current = PLAYING])
        ELSE s1

flap(s) ==
    IF s.current # GAME_OVER
    THEN LET s1 == [s EXCEPT !.velocity = flapPower]
         IN  IF s1.current = START
             THEN startMusic([s1 EXCEPT !.current = PLAYING])
             ELSE s1
    ELSE s

startGame(s) == flap([s EXCEPT !.current = PLAYING])

\* toilet.update that moves the toilet before it applies gravity
toiletUpdate_moveFirst(s) ==
    IF s.current # PLAYING THEN s
    ELSE
    LET v0 == s.velocity + gravity
        v1 == IF v0 > maxVelocity THEN maxVelocity ELSE v0
        s1 == [s EXCEPT !.velocity = v1, !.y = @ + s.velocity]
        s2 == IF s1.y < 0
              THEN endGame([s1 EXCEPT !.y = 0, !.velocity = 0])
              ELSE s1
        s3 == IF ~s2.thrown /\ s2.y + toilet_height > GAME_HEIGHT - 5000
              THEN endGame([s2 EXCEPT !.y = GAME_HEIGHT - 5000 - toilet_height,
                                      !.velocity = 0])
              ELSE s2
    IN  s3

\* toilet.update without gravity
toiletUpdate_noGravity(s) ==
    IF s.current # PLAYING THEN s
    ELSE
    LET v1 == IF s.velocity > maxVelocity THEN maxVelocity ELSE s.velocity
        s1 == [s EXCEPT !.velocity = v1, !.y = @ + v1]
        s2 == IF s1.y < 0
              THEN endGame([s1 EXCEPT !.y = 0, !.velocity = 0])
              ELSE s1
        s3 == IF ~s2.thrown /\ s2.y + toilet_height > GAME_HEIGHT - 5000
              THEN endGame([s2 EXCEPT !.y = GAME_HEIGHT - 5000 - toilet_height,
                                      !.velocity = 0])
              ELSE s2
    IN  s3

\* toilet.update without the clamp of the velocity
toiletUpdate_noClamp(s) ==
    IF s.current # PLAYING THEN s
    ELSE
    LET v1 == s.velocity + gravity
        s1 == [s EXCEPT !.velocity = v1, !.y = @ + v1]
        s2 == IF s1.y < 0
              THEN endGame([s1 EXCEPT !.y = 0, !.velocity = 0])
              ELSE s1
        s3 == IF ~s2.thrown /\ s2.y + toilet_height > GAME_HEIGHT - 5000
              THEN endGame([s2 EXCEPT !.y = GAME_HEIGHT - 5000 - toilet_height,
                                      !.velocity = 0])
              ELSE s2
    IN  s3

\* toilet.update whose boundary checks leave the velocity alone
toiletUpdate_noStop(s) ==
    IF s.current # PLAYING THEN s
    ELSE
    LET v0 == s.velocity + gravity
        v1 == IF v0 > maxVelocity THEN maxVelocity ELSE v0
        s1 == [s EXCEPT !.velocity = v1, !.y = @ + v1]
        s2 == IF s1.y < 0
              THEN endGame([s1 EXCEPT !.y = 0])
              ELSE s1
        s3 == IF ~s2.thrown /\ s2.y + toilet_height > GAME_HEIGHT - 5000
              THEN endGame([s2 EXCEPT !.y = GAME_HEIGHT - 5000 - toilet_height])
              ELSE s2
    IN  s3

\* toilet.update without the ceiling check
toiletUpdate_noCeiling(s) ==
    IF s.current # PLAYING THEN s
    ELSE
    LET v0 == s.velocity + gravity
        v1 == IF v0 > maxVelocity THEN maxVelocity ELSE v0
        s1 == [s EXCEPT !.velocity = v1, !.y = @ + v1]
        s3 == IF s1.y + toilet_height > GAME_HEIGHT - 5000
              THEN endGame([s1 EXCEPT !.y = GAME_HEIGHT - 5000 - toilet_height,
                                      !.velocity = 0])
              ELSE s1
    IN  s3

toiletUpdate(s) ==
    IF s.current # PLAYING THEN s
    ELSE
    LET v0 == s.velocity + gravity
        v1 == IF v0 > maxVelocity THEN maxVelocity ELSE v0
        s1 == [s EXCEPT !.velocity = v1, !.y = @ + v1]
        s2 == IF s1.y < 0
              THEN endGame([s1 EXCEPT !.y = 0, !.velocity = 0])
              ELSE s1
        s3 == IF ~s2.thrown /\ s2.y + toilet_height > GAME_HEIGHT - 5000
              THEN endGame([s2 EXCEPT !.y = GAME_HEIGHT - 5000 - toilet_height,
                                      !.velocity = 0])
              ELSE s2
    IN  s3

----------------------------------------------------------------------------
(* pipes *)

\* getCurrentGap without its floor
getCurrentGap_unclamped(lv) == baseGap - (lv - 1) * gapDecrement

getCurrentGap(lv) == Max(baseGap - (lv - 1) * gapDecrement, minGap)

getCurrentSpeed(lv) == Min(baseSpeed + (lv - 1) * speedIncrement, maxSpeed)

getCurrentSpawnInterval(lv) ==
    Max(baseSpawnInterval - (lv - 1) * spawnDecrement, minSpawnInterval)

\* spawn using the gap of the first level, whatever the level
spawn_baseGap(s, r) ==
    LET minY == 5000
        currentGap == baseGap
        maxY == GAME_HEIGHT - groundHeight - currentGap - 10000
        topHeight == (r * (maxY - minY)) \div 100 + minY
    IN  [s EXCEPT !.list = Append(@, [x |-> GAME_WIDTH,
                                      topHeight |-> topHeight,
                                      bottomY |-> topHeight + currentGap,
                                      scored |-> FALSE])]

\* spawn whose upper bound of topHeight forgets the gap
spawn_noGapInMax(s, r) ==
    LET minY == 5000
        currentGap == getCurrentGap(s.level)
        maxY == GAME_HEIGHT - groundHeight - 10000
        topHeight == (r * (maxY - minY)) \div 100 + minY
    IN  [s EXCEPT !.list = Append(@, [x |-> GAME_WIDTH,
                                      topHeight |-> topHeight,
                                      bottomY |-> topHeight + currentGap,
                                      scored |-> FALSE])]

\* spawn that puts the new pipe at the front of the list
spawn_unshift(s, r) ==
    LET minY == 5000
        currentGap == getCurrentGap(s.level)
        maxY == GAME_HEIGHT - groundHeight - currentGap - 10000
        topHeight == (r * (maxY - minY)) \div 100 + minY
    IN  [s EXCEPT !.list = <<[x |-> GAME_WIDTH,
                              topHeight |-> topHeight,
                              bottomY |-> topHeight + currentGap,
                              scored |-> FALSE]>> \o @]

\* r is Math.random() in percent
spawn(s, r) ==
    LET minY == 5000
        currentGap == getCurrentGap(s.level)
        maxY == GAME_HEIGHT - groundHeight - currentGap - 10000
        topHeight == (r * (maxY - minY)) \div 100 + minY
    IN  [s EXCEPT !.list = Append(@, [x |-> GAME_WIDTH,
                                      topHeight |-> topHeight,
                                      bottomY |-> topHeight + currentGap,
                                      scored |-> FALSE])]

\* checkCollision that counts a pipe touching the toilet's right edge
checkCollision_touching(s, pipe) ==
    /\ toilet_x + toilet_width >= pipe.x
    /\ toilet_x < pipe.x + pipeWidth
    /\ \/ s.y < pipe.topHeight
       \/ s.y + toilet_height > pipe.bottomY

checkCollision(s, pipe) ==
    /\ toilet_x + toilet_width > pipe.x
    /\ toilet_x < pipe.x + pipeWidth
    /\ \/ s.y < pipe.topHeight
       \/ s.y + toilet_height > pipe.bottomY

\* list.splice(i, 1)
Splice(l, i) == SubSeq(l, 1, i - 1) \o SubSeq(l, i + 1, Len(l))

\* scoring that forgets to mark the pipe
scorePipe_noMark(s, i) ==
    LET s1 == [s EXCEPT !.score = @ + 1,
                        !.pipesPassed = @ + 1]
        newLevel == (s1.pipesPassed \div pipesPerLevel) + 1
    IN  IF newLevel > s1.level
        THEN [s1 EXCEPT !.level = newLevel,
                        !.bestLevel = IF newLevel > @ THEN newLevel ELSE @]
        ELSE s1

\* scoring that computes the level before counting the pipe
scorePipe_levelLag(s, i) ==
    LET newLevel == (s.pipesPassed \div pipesPerLevel) + 1
        s1 == [s EXCEPT !.list[i].scored = TRUE,
                        !.score = @ + 1,
                        !.pipesPassed = @ + 1]
    IN  IF newLevel > s1.level
        THEN [s1 EXCEPT !.level = newLevel,
                        !.bestLevel = IF newLevel > @ THEN newLevel ELSE @]
        ELSE s1

\* scoring that leaves the best level to endGame
scorePipe_noBest(s, i) ==
    LET s1 == [s EXCEPT !.list[i].scored = TRUE,
                        !.score = @ + 1,
                        !.pipesPassed = @ + 1]
        newLevel == (s1.pipesPassed \div pipesPerLevel) + 1
    IN  IF newLevel > s1.level
        THEN [s1 EXCEPT !.level = newLevel]
        ELSE s1

\* the body of the if at lines 400-414
scorePipe(s, i) ==
    LET s1 == [s EXCEPT !.list[i].scored = TRUE,
                        !.score = @ + 1,
                        !.pipesPassed = @ + 1]
        newLevel == (s1.pipesPassed \div pipesPerLevel) + 1
    IN  IF newLevel > s1.level
        THEN [s1 EXCEPT !.level = newLevel,
                        !.bestLevel = IF newLevel > @ THEN newLevel ELSE @]
        ELSE s1

\* the loop refitting each pipe it moves to the gap of the current level
RECURSIVE sweep_refit(_, _, _)
sweep_refit(s, i, currentSpeed) ==
    IF i = 0 THEN s
    ELSE
    LET x1 == s.list[i].x - currentSpeed
        s1 == [s EXCEPT !.list[i].x = x1,
                        !.list[i].bottomY =
                            s.list[i].topHeight + getCurrentGap(s.level)]
    IN  IF x1 + pipeWidth < 0
        THEN sweep_refit([s1 EXCEPT !.list = Splice(@, i)], i - 1, currentSpeed)
        ELSE LET s2 == IF checkCollision(s1, s1.list[i]) THEN endGame(s1) ELSE s1
                 s3 == IF ~s2.list[i].scored /\ x1 + pipeWidth < toilet_x
                       THEN scorePipe(s2, i)
                       ELSE s2
             IN  IF s2.thrown THEN s2 ELSE sweep_refit(s3, i - 1, currentSpeed)

\* a sweep that removes a pipe as soon as its left edge is off-screen
RECURSIVE sweep_earlyRemove(_, _, _)
sweep_earlyRemove(s, i, currentSpeed) ==
    IF i = 0 THEN s
    ELSE
    LET x1 == s.list[i].x - currentSpeed
        s1 == [s EXCEPT !.list[i].x = x1]
    IN  IF x1 < 0
        THEN sweep_earlyRemove([s1 EXCEPT !.list = Splice(@, i)], i - 1,
                               currentSpeed)
        ELSE LET s2 == IF checkCollision(s1, s1.list[i]) THEN endGame(s1) ELSE s1
                 s3 == IF ~s2.list[i].scored /\ x1 + pipeWidth < toilet_x
                       THEN scorePipe(s2, i)
                       ELSE s2
             IN  IF s2.thrown THEN s2
                 ELSE sweep_earlyRemove(s3, i - 1, currentSpeed)

\* a sweep that scores a pipe only once it is off-screen
RECURSIVE sweep_scoreOffScreen(_, _, _)
sweep_scoreOffScreen(s, i, currentSpeed) ==
    IF i = 0 THEN s
    ELSE
    LET x1 == s.list[i].x - currentSpeed
        s1 == [s EXCEPT !.list[i].x = x1]
    IN  IF x1 + pipeWidth < 0
        THEN sweep_scoreOffScreen([s1 EXCEPT !.list = Splice(@, i)], i - 1,
                                  currentSpeed)
        ELSE LET s2 == IF checkCollision(s1, s1.list[i]) THEN endGame(s1) ELSE s1
                 s3 == IF ~s2.list[i].scored /\ x1 + pipeWidth < 0
                       THEN scorePipe(s2, i)
                       ELSE s2
             IN  IF s2.thrown THEN s2
                 ELSE sweep_scoreOffScreen(s3, i - 1, currentSpeed)

\* a sweep that stops at the first collision
RECURSIVE sweep_stopAtHit(_, _, _)
sweep_stopAtHit(s, i, currentSpeed) ==
    IF i = 0 THEN s
    ELSE
    LET x1 == s.list[i].x - currentSpeed
        s1 == [s EXCEPT !.list[i].x = x1]
    IN  IF x1 + pipeWidth < 0
        THEN sweep_stopAtHit([s1 EXCEPT !.list = Splice(@, i)], i - 1,
                             currentSpeed)
        ELSE IF checkCollision(s1, s1.list[i]) THEN endGame(s1)
        ELSE LET s3 == IF ~s1.list[i].scored /\ x1 + pipeWidth < toilet_x
                       THEN scorePipe(s1, i)
                       ELSE s1
             IN  sweep_stopAtHit(s3, i - 1, currentSpeed)

\* the for loop at lines 384-415, from index i down to the first pipe
RECURSIVE sweep(_, _, _)
sweep(s, i, currentSpeed) ==
    IF i = 0 THEN s
    ELSE
    LET x1 == s.list[i].x - currentSpeed
        s1 == [s EXCEPT !.list[i].x = x1]
    IN  IF x1 + pipeWidth < 0
        THEN sweep([s1 EXCEPT !.list = Splice(@, i)], i - 1, currentSpeed)
        ELSE LET s2 == IF checkCollision(s1, s1.list[i]) THEN endGame(s1) ELSE s1
                 s3 == IF ~s2.list[i].scored /\ x1 + pipeWidth < toilet_x
                       THEN scorePipe(s2, i)
                       ELSE s2
             IN  IF s2.thrown THEN s2 ELSE sweep(s3, i - 1, currentSpeed)

\* pipes.update without its mode test
pipesUpdate_noGuard(s, r) ==
    LET currentSpeed == getCurrentSpeed(s.level)
        currentInterval == getCurrentSpawnInterval(s.level)
        s1 == IF s.frame % currentInterval = 0 THEN spawn(s, r) ELSE s
    IN  sweep(s1, Len(s1.list), currentSpeed)

\* pipes.update that does not spawn on frame 0
pipesUpdate_lateFirstSpawn(s, r) ==
    IF s.current # PLAYING THEN s
    ELSE
    LET currentSpeed == getCurrentSpeed(s.level)
        currentInterval == getCurrentSpawnInterval(s.level)
        s1 == IF s.frame % currentInterval = 0 /\ s.frame > 0
              THEN spawn(s, r) ELSE s
    IN  sweep(s1, Len(s1.list), currentSpeed)

pipesUpdate(s, r) ==
    IF s.current # PLAYING THEN s
    ELSE
    LET currentSpeed == getCurrentSpeed(s.level)
        currentInterval == getCurrentSpawnInterval(s.level)
        s1 == IF s.frame % currentInterval = 0 THEN spawn(s, r) ELSE s
    IN  sweep(s1, Len(s1.list), currentSpeed)

----------------------------------------------------------------------------
(* input handling *)

\* the keydown listener, for the key codes it tests
Keys == {"Space", "ArrowUp", "KeyR", "KeyM", "KeyP", "Escape"}

\* keydown whose KeyR branch does not test the mode
keydown_restartAnyMode(s, code) ==
    LET s1 == IF code \in {"Space", "ArrowUp"}
                 /\ s.current \in {PLAYING, START}
              THEN flap(s) ELSE s
        s2 == IF code = "KeyR" THEN restart(s1) ELSE s1
        s3 == IF code = "KeyM" THEN toggleMute(s2) ELSE s2
        s4 == IF code = "KeyP" THEN togglePause(s3) ELSE s3
        s5 == IF code = "Escape"
              THEN IF s4.showingHelp
                   THEN [s4 EXCEPT !.showingHelp = FALSE]
                   ELSE IF s4.current = PAUSED THEN togglePause(s4) ELSE s4
              ELSE s4
    IN  [s5 EXCEPT !.thrown = FALSE]

\* keydown whose flap branch does not test the mode
keydown_flapAnyMode(s, code) ==
    LET s1 == IF code \in {"Space", "ArrowUp"} THEN flap(s) ELSE s
        s2 == IF code = "KeyR" /\ s1.current = GAME_OVER
              THEN restart(s1) ELSE s1
        s3 == IF code = "KeyM" THEN toggleMute(s2) ELSE s2
        s4 == IF code = "KeyP" THEN togglePause(s3) ELSE s3
        s5 == IF code = "Escape"
              THEN IF s4.showingHelp
                   THEN [s4 EXCEPT !.showingHelp = FALSE]
                   ELSE IF s4.current = PAUSED THEN togglePause(s4) ELSE s4
              ELSE s4
    IN  [s5 EXCEPT !.thrown = FALSE]

keydown(s, code) ==
    LET s1 == IF code \in {"Space", "ArrowUp"}
                 /\ s.current \in {PLAYING, START}
              THEN flap(s) ELSE s
        s2 == IF code = "KeyR" /\ s1.current = GAME_OVER
              THEN restart(s1) ELSE s1
        s3 == IF code = "KeyM" THEN toggleMute(s2) ELSE s2
        s4 == IF code = "KeyP" THEN togglePause(s3) ELSE s3
        s5 == IF code = "Escape"
              THEN IF s4.showingHelp
                   THEN [s4 EXCEPT !.showingHelp = FALSE]
                   ELSE IF s4.current = PAUSED THEN togglePause(s4) ELSE s4
              ELSE s4
    IN  [s5 EXCEPT !.thrown = FALSE]

\* buttons, in whole game pixels (GAME_WIDTH / 2 = 300, GAME_HEIGHT = 600)
buttons ==
    [playButton         |-> [x |-> 300 - 80, y |-> 380, width |-> 160, height |-> 50],
     restartButton      |-> [x |-> 300 - 80, y |-> 400, width |-> 160, height |-> 50],
     helpButtonStart    |-> [x |-> 300 - 25, y |-> 450, width |-> 50, height |-> 40],
     helpButtonGameOver |-> [x |-> 300 - 25, y |-> 465, width |-> 50, height |-> 35],
     pauseButton        |-> [x |-> 600 - 60, y |-> 10, width |-> 50, height |-> 35],
     closeHelpButton    |-> [x |-> 300 - 70, y |-> 600 - 90, width |-> 140, height |-> 45]]

isPointInButton(px, py, button) ==
    /\ px >= button.x /\ px <= button.x + button.width
    /\ py >= button.y /\ py <= button.y + button.height

handleCanvasClick(s, clickX, clickY) ==
    IF s.showingHelp
    THEN IF isPointInButton(clickX, clickY, buttons.closeHelpButton)
         THEN [s EXCEPT !.showingHelp = FALSE]
         ELSE s
    ELSE IF s.current = START
    THEN IF isPointInButton(clickX, clickY, buttons.playButton)
         THEN startGame(s)
         ELSE IF isPointInButton(clickX, clickY, buttons.helpButtonStart)
              THEN [s EXCEPT !.showingHelp = TRUE]
              ELSE flap(s)
    ELSE IF s.current = PLAYING
    THEN IF isPointInButton(clickX, clickY, buttons.pauseButton)
         THEN togglePause(s)
         ELSE flap(s)
    ELSE IF s.current = PAUSED
    THEN IF isPointInButton(clickX, clickY, buttons.pauseButton)
         THEN togglePause(s)
         ELSE s
    ELSE IF s.current = GAME_OVER
    THEN IF isPointInButton(clickX, clickY, buttons.restartButton)
         THEN restart(s)
         ELSE IF isPointInButton(clickX, clickY, buttons.helpButtonGameOver)
              THEN [s EXCEPT !.showingHelp = TRUE]
              ELSE s
    ELSE s

----------------------------------------------------------------------------
(* gameLoop: the update part of one animation frame *)

\* gameLoop that updates the pipes before the toilet
gameLoop_pipesFirst(s, r) ==
    IF s.current = PLAYING
    THEN LET s1 == toiletUpdate(pipesUpdate(s, r))
         IN  IF s1.thrown
             THEN [s1 EXCEPT !.thrown = FALSE, !.looping = FALSE]
             ELSE [s1 EXCEPT !.frame = @ + 1]
    ELSE s

\* An exception thrown in toilet.update or pipes.update leaves gameLoop
\* before frame++ and before requestAnimationFrame(gameLoop).
gameLoop(s, r) ==
    IF s.current = PLAYING
    THEN LET s1 == pipesUpdate(toiletUpdate(s), r)
         IN  IF s1.thrown
             THEN [s1 EXCEPT !.thrown = FALSE, !.looping = FALSE]
             ELSE [s1 EXCEPT !.frame = @ + 1]
    ELSE s

----------------------------------------------------------------------------
(* Initial state: the module-level initialisers, loadGameData() with no   *)
(* saved data                                                             *)

Init ==
    /\ current = START
    /\ score = 0
    /\ highScore = 0
    /\ frame = 0
    /\ isMuted = FALSE
    /\ level = 1
    /\ pipesPassed = 0
    /\ bestLevel = 1
    /\ showingHelp = FALSE
    /\ y = GAME_HEIGHT \div 2
    /\ velocity = 0
    /\ list = <<>>
    /\ bgMusic = FALSE
    /\ hits = 0
    /\ store = "ok"
    /\ saved = NoData
    /\ scriptRan = TRUE
    /\ looping = TRUE

----------------------------------------------------------------------------
(* The inputs explored *)

\* A flap input while PLAYING comes on the tick the toilet falls through
\* FlapLine, or at any time on the frames FreeFlapFrom .. FreeFlapTo - 1.
FlapInput ==
    \/ current # PLAYING
    \/ (frame >= FreeFlapFrom /\ frame < FreeFlapTo)
    \/ /\ y >= FlapLine
       /\ y - velocity < FlapLine

\* A mute input comes outside the rounds or early in one.
MuteInput == current \in {START, GAME_OVER} \/ frame < MuteFrames

\* Click and touch positions, in whole game pixels: one inside each button
\* (and each overlap of two buttons) and one outside all of them.
ClickPoints ==
    {<<300, 390>>, <<300, 415>>, <<300, 440>>, <<300, 455>>, <<300, 480>>,
     <<300, 498>>, <<565, 25>>, <<300, 530>>, <<100, 100>>}

\* the click flaps the toilet while PLAYING
ClickFlaps(p) ==
    /\ current = PLAYING
    /\ ~showingHelp
    /\ ~isPointInButton(p[1], p[2], buttons.pauseButton)

----------------------------------------------------------------------------
(* Actions: one per event the browser delivers.  The frame callback runs   *)
(* while gameLoop keeps requesting it, the listeners once registered.      *)

Tick ==
    /\ looping
    /\ current = PLAYING => frame < MaxFrame
    /\ \E r \in RandomPercents : Commit(gameLoop(Here, r))

KeyDown ==
    \E code \in Keys :
        /\ scriptRan
        /\ code \in {"Space", "ArrowUp"} => FlapInput
        /\ code = "KeyM" => MuteInput
        /\ Commit(keydown(Here, code))

Click ==
    \E p \in ClickPoints :
        /\ scriptRan
        /\ ClickFlaps(p) => FlapInput
        /\ Commit(handleCanvasClick(Here, p[1], p[2]))

\* the touchstart listener hands the first touch to handleCanvasClick
TouchStart ==
    \E p \in ClickPoints :
        /\ scriptRan
        /\ ClickFlaps(p) => FlapInput
        /\ Commit(handleCanvasClick(Here, p[1], p[2]))

Next == Tick \/ KeyDown \/ Click \/ TouchStart

Spec == Init /\ [][Next]_vars

----------------------------------------------------------------------------
(* Free flight: the same handlers from the same initial state, the flaps   *)
(* free on every FlapEvery-th frame, over the first MaxFlightFrame frames  *)
(* of each round.  The toilet reaches the ceiling and the ground.          *)

FlightFlapInput == current = PLAYING => frame % FlapEvery = 0

FlightTick ==
    /\ looping
    /\ current = PLAYING => frame < MaxFlightFrame
    /\ \E r \in RandomPercents : Commit(gameLoop(Here, r))

FlightKeyDown ==
    \E code \in Keys :
        /\ scriptRan
        /\ code \in {"Space", "ArrowUp"} => FlightFlapInput
        /\ Commit(keydown(Here, code))

FlightClick ==
    \E p \in ClickPoints :
        /\ scriptRan
        /\ ClickFlaps(p) => FlightFlapInput
        /\ Commit(handleCanvasClick(Here, p[1], p[2]))

FlightTouchStart ==
    \E p \in ClickPoints :
        /\ scriptRan
        /\ ClickFlaps(p) => FlightFlapInput
        /\ Commit(handleCanvasClick(Here, p[1], p[2]))

FlightNext == FlightTick \/ FlightKeyDown \/ FlightClick \/ FlightTouchStart

FlightSpec == Init /\ [][FlightNext]_vars

----------------------------------------------------------------------------
(* The functions on drawn inputs: a round on any level 1 .. MaxLevel, one  *)
(* tick before a spawn frame, with one pipe abreast of the toilet and the  *)
(* toilet at the edges of its gap; then the same handlers for FnTicks      *)
(* ticks.                                                                  *)

\* a round that has just reached level lv
FnRound(lv) ==
    [current |-> PLAYING, score |-> pipesPerLevel * (lv - 1),
     highScore |-> pipesPerLevel * (lv - 1),
     frame |-> getCurrentSpawnInterval(lv) * pipesPerLevel * lv - 1,
     isMuted |-> FALSE, level |-> lv,
     pipesPassed |-> pipesPerLevel * (lv - 1), bestLevel |-> lv,
     showingHelp |-> FALSE, y |-> GAME_HEIGHT \div 2, velocity |-> 0,
     list |-> <<>>, bgMusic |-> TRUE, hits |-> 0,
     store |-> "ok", saved |-> NoData, scriptRan |-> TRUE, looping |-> TRUE,
     thrown |-> FALSE]

\* x of the drawn pipe: its left edge one tick right of, or at, the toilet's
\* right edge; its right edge one tick right of, or at, the toilet's left edge
FnPipeXs(lv) ==
    {toilet_x + toilet_width + getCurrentSpeed(lv), toilet_x + toilet_width,
     toilet_x - pipeWidth + getCurrentSpeed(lv), toilet_x - pipeWidth}

\* y of the toilet: at and just beyond the two edges of the pipe's gap, and
\* just above the ground
FnToiletYs(pipe) ==
    {pipe.topHeight - 10, pipe.topHeight,
     pipe.bottomY - toilet_height, pipe.bottomY - toilet_height + 10,
     GAME_HEIGHT - 5000 - toilet_height - 10}

\* velocities of a toilet that flapped 20 and 21 ticks ago
FnVelocities == {flapPower + 20 * gravity, flapPower + 21 * gravity}

FnInit ==
    \E lv \in 1 .. MaxLevel, r \in FnRandomPercents, v \in FnVelocities :
        LET s1 == spawn(FnRound(lv), r)
        IN  \E px \in FnPipeXs(lv), py \in FnToiletYs(s1.list[1]) :
                LET s2 == [s1 EXCEPT !.list[1].x = px, !.y = py, !.velocity = v]
                    s3 == IF checkCollision(s2, s2.list[1])
                          THEN endGame(s2) ELSE s2
                IN  /\ current = s3.current
                    /\ score = s3.score
                    /\ highScore = s3.highScore
                    /\ frame = s3.frame
                    /\ isMuted = s3.isMuted
                    /\ level = s3.level
                    /\ pipesPassed = s3.pipesPassed
                    /\ bestLevel = s3.bestLevel
                    /\ showingHelp = s3.showingHelp
                    /\ y = s3.y
                    /\ velocity = s3.velocity
                    /\ list = s3.list
                    /\ bgMusic = s3.bgMusic
                    /\ hits = s3.hits
                    /\ store = s3.store
                    /\ saved = s3.saved
                    /\ scriptRan = s3.scriptRan
                    /\ looping = s3.looping

FnTick ==
    /\ looping
    /\ current = PLAYING =>
           (frame + 1) % getCurrentSpawnInterval(level) < FnTicks
    /\ \E r \in FnRandomPercents : Commit(gameLoop(Here, r))

\* R is pressed on the game-over screen only (elsewhere it does nothing)
FnKeyDown ==
    \E code \in Keys :
        /\ scriptRan
        /\ code = "KeyR" => current = GAME_OVER
        /\ Commit(keydown(Here, code))

FnNext == FnTick \/ FnKeyDown

FnSpec == FnInit /\ [][FnNext]_vars

----------------------------------------------------------------------------
(* The store: the script started with localStorage working, refusing       *)
(* writes or refusing every access, and holding no item, an unparseable    *)
(* item or saved data; then the same handlers, the flaps free on every     *)
(* StoreFlapEvery-th frame of the first MaxStoreFrame frames of a round.   *)

Stores == {"ok", "readonly", "denied"}

StoredItems == {NoData, CorruptData, SavedData(3, TRUE, 2)}

\* The script from its first line: the initialisers, then loadGameData() at
\* line 130.  An exception there ends the script: no listener is registered
\* and gameLoop is never called (toilet and pipes are never built; y,
\* velocity and list stand for nothing then).
Boot(st, item) ==
    LET s0 == [current |-> START, score |-> 0, highScore |-> 0, frame |-> 0,
               isMuted |-> FALSE, level |-> 1, pipesPassed |-> 0,
               bestLevel |-> 1, showingHelp |-> FALSE,
               y |-> GAME_HEIGHT \div 2, velocity |-> 0, list |-> <<>>,
               bgMusic |-> FALSE, hits |-> 0, store |-> st, saved |-> item,
               scriptRan |-> TRUE, looping |-> TRUE, thrown |-> FALSE]
        s1 == loadGameData(s0)
    IN  IF s1.thrown
        THEN [s1 EXCEPT !.thrown = FALSE, !.scriptRan = FALSE,
                        !.looping = FALSE]
        ELSE s1

StoreInit ==
    \E st \in Stores, item \in StoredItems :
        LET s == Boot(st, item)
        IN  /\ current = s.current
            /\ score = s.score
            /\ highScore = s.highScore
            /\ frame = s.frame
            /\ isMuted = s.isMuted
            /\ level = s.level
            /\ pipesPassed = s.pipesPassed
            /\ bestLevel = s.bestLevel
            /\ showingHelp = s.showingHelp
            /\ y = s.y
            /\ velocity = s.velocity
            /\ list = s.list
            /\ bgMusic = s.bgMusic
            /\ hits = s.hits
            /\ store = s.store
            /\ saved = s.saved
            /\ scriptRan = s.scriptRan
            /\ looping = s.looping

StoreFlapInput == current = PLAYING => frame % StoreFlapEvery = 0

StoreTick ==
    /\ looping
    /\ current = PLAYING => frame < MaxStoreFrame
    /\ \E r \in RandomPercents : Commit(gameLoop(Here, r))

StoreKeyDown ==
    \E code \in Keys :
        /\ scriptRan
        /\ code \in {"Space", "ArrowUp"} => StoreFlapInput
        /\ Commit(keydown(Here, code))

StoreClick ==
    \E p \in ClickPoints :
        /\ scriptRan
        /\ ClickFlaps(p) => StoreFlapInput
        /\ Commit(handleCanvasClick(Here, p[1], p[2]))

StoreTouchStart ==
    \E p \in ClickPoints :
        /\ scriptRan
        /\ ClickFlaps(p) => StoreFlapInput
        /\ Commit(handleCanvasClick(Here, p[1], p[2]))

StoreNext == StoreTick \/ StoreKeyDown \/ StoreClick \/ StoreTouchStart

StoreSpec == StoreInit /\ [][StoreNext]_vars

----------------------------------------------------------------------------
(* The records: the script started with a working store that holds no item *)
(* or valid saved data, then the play of Spec.                             *)

RecordItems == {NoData, SavedData(3, TRUE, 2)}

RecordInit ==
    \E item \in RecordItems :
        LET s == Boot("ok", item)
        IN  /\ current = s.current
            /\ score = s.score
            /\ highScore = s.highScore
            /\ frame = s.frame
            /\ isMuted = s.isMuted
            /\ level = s.level
            /\ pipesPassed = s.pipesPassed
            /\ bestLevel = s.bestLevel
            /\ showingHelp = s.showingHelp
            /\ y = s.y
            /\ velocity = s.velocity
            /\ list = s.list
            /\ bgMusic = s.bgMusic
            /\ hits = s.hits
            /\ store = s.store
            /\ saved = s.saved
            /\ scriptRan = s.scriptRan
            /\ looping = s.looping

RecordSpec == RecordInit /\ [][Next]_vars

----------------------------------------------------------------------------
(* toilet.update on drawn inputs: a round in its first frame with the      *)
(* toilet at rest, or just flapped, at any height from the ceiling to the  *)
(* ground; then DropTicks ticks without input.                             *)

DropInit ==
    \E k \in 0 .. MaxDropY, v \in {0, flapPower} :
        /\ current = PLAYING
        /\ score = 0
        /\ highScore = 0
        /\ frame = 0
        /\ isMuted = FALSE
        /\ level = 1
        /\ pipesPassed = 0
        /\ bestLevel = 1
        /\ showingHelp = FALSE
        /\ y = k * 1000
        /\ velocity = v
        /\ list = <<>>
        /\ bgMusic = TRUE
        /\ hits = 0
        /\ store = "ok"
        /\ saved = NoData
        /\ scriptRan = TRUE
        /\ looping = TRUE

DropTick ==
    /\ looping
    /\ current = PLAYING
    /\ frame < DropTicks
    /\ \E r \in RandomPercents : Commit(gameLoop(Here, r))

DropNext == DropTick

DropSpec == DropInit /\ [][DropNext]_vars

----------------------------------------------------------------------------
(* A round left alone: a round at level 1 with the toilet at a drawn       *)
(* height, rising from a flap, at rest or falling at full speed, with no   *)
(* pipe or with a pipe just ahead of the toilet; then gameLoop on every    *)
(* animation frame and no input.  requestAnimationFrame(gameLoop) at line  *)
(* 964 schedules the next tick at the end of every tick.                   *)

IdleVelocities == {flapPower, 0, maxVelocity}

\* a round with the toilet at height k, velocity v, and a pipe ahead or not
IdleRound(k, v, ahead) ==
    LET s0 == [current |-> PLAYING, score |-> 0, highScore |-> 0, frame |-> 0,
               isMuted |-> FALSE, level |-> 1, pipesPassed |-> 0,
               bestLevel |-> 1, showingHelp |-> FALSE,
               y |-> k * 1000, velocity |-> v, list |-> <<>>,
               bgMusic |-> TRUE, hits |-> 0, store |-> "ok", saved |-> NoData,
               scriptRan |-> TRUE, looping |-> TRUE, thrown |-> FALSE]
    IN  IF ahead
        THEN [spawn(s0, 50) EXCEPT !.list[1].x = toilet_x + toilet_width + 1000]
        ELSE s0

IdleInit ==
    \E k \in 0 .. MaxDropY, v \in IdleVelocities, ahead \in BOOLEAN :
        LET s == IdleRound(k, v, ahead)
        IN  /\ current = s.current
            /\ score = s.score
            /\ highScore = s.highScore
            /\ frame = s.frame
            /\ isMuted = s.isMuted
            /\ level = s.level
            /\ pipesPassed = s.pipesPassed
            /\ bestLevel = s.bestLevel
            /\ showingHelp = s.showingHelp
            /\ y = s.y
            /\ velocity = s.velocity
            /\ list = s.list
            /\ bgMusic = s.bgMusic
            /\ hits = s.hits
            /\ store = s.store
            /\ saved = s.saved
            /\ scriptRan = s.scriptRan
            /\ looping = s.looping

IdleTick ==
    /\ looping
    /\ current = PLAYING
    /\ frame <= MaxIdleTicks
    /\ \E r \in RandomPercents : Commit(gameLoop(Here, r))

IdleNext == IdleTick

\* The frame that gameLoop has requested is run: with a working store every
\* IdleTick step ends in frame++ and requests the next frame, so the steps of
\* IdleTick are the steps that advance frame.
FrameRuns ==
    /\ looping
    /\ current = PLAYING
    /\ frame <= MaxIdleTicks
    /\ frame' = frame + 1

IdleSpec == IdleInit /\ [][IdleNext]_vars /\ WF_frame(FrameRuns)

----------------------------------------------------------------------------
(* Properties *)

\* the step taken is restart(): the only way out of GAME_OVER
RestartStep == current = GAME_OVER /\ current' = PLAYING

\* the fields of the round
round == <<y, velocity, frame, list, score, level, pipesPassed>>

\* C1: the only mode changes any step makes are START -> PLAYING,
\* PLAYING -> PAUSED, PAUSED -> PLAYING, PLAYING -> GAME_OVER and
\* GAME_OVER -> PLAYING.
C1_ModeTransitions ==
    [][\/ current' = current
       \/ <<current, current'>> \in {<<START, PLAYING>>, <<PLAYING, PAUSED>>,
                                     <<PAUSED, PLAYING>>, <<PLAYING, GAME_OVER>>,
                                     <<GAME_OVER, PLAYING>>}]_vars

\* a round was played to its end with a pipe passed, restarted, then paused
C1_Witness == current = PAUSED /\ highScore > 0

\* C2: the side effects of the end of the round fire at most once between
\* two restarts, and exactly once when the mode is GAME_OVER.
C2_RoundEndsOnce ==
    /\ hits <= 1
    /\ current = GAME_OVER <=> hits = 1

\* the round is over with two pipes overlapping the toilet's box
C2_Witness ==
    /\ current = GAME_OVER
    /\ \E i, j \in DOMAIN list :
         /\ i # j
         /\ checkCollision(Here, list[i])
         /\ checkCollision(Here, list[j])

\* the pipes whose right edge passes toilet.x when moved by sp
Passing(sp) ==
    {i \in DOMAIN list : /\ ~(list[i].x + pipeWidth < toilet_x)
                          /\ list[i].x - sp + pipeWidth < toilet_x}

\* C3: a step changes score only by restart (to 0) or by a tick that moves
\* the pipes, which adds one for each pipe whose right edge passes toilet.x on
\* that tick; a pipe of the list is marked scored exactly when its right edge
\* is left of toilet.x, so it is counted on that tick and never again.
C3_ScoreOncePerPipe ==
    [][/\ IF RestartStep
          THEN score' = 0
          ELSE IF list' # list
               THEN score' = score + Cardinality(Passing(getCurrentSpeed(level)))
               ELSE score' = score
       /\ \A i \in DOMAIN list' :
              list'[i].scored <=> (list'[i].x + pipeWidth < toilet_x)]_vars

\* two pipes have been scored and a third is on its way
C3_Witness ==
    /\ score = 2
    /\ \E i \in DOMAIN list : list[i].scored
    /\ \E i \in DOMAIN list : ~list[i].scored

\* C4: when the round is over highScore >= score and bestLevel >= level.
C4_RecordsAtGameOver ==
    current = GAME_OVER => (highScore >= score /\ bestLevel >= level)

\* C5: restart sets score, frame and pipesPassed to 0, level to 1, empties
\* the pipe list, puts the toilet at GAME_HEIGHT / 2 with velocity 0 and
\* leaves highScore and bestLevel as they were.
C5_RestartResets ==
    [][RestartStep =>
         /\ score' = 0 /\ frame' = 0 /\ level' = 1 /\ pipesPassed' = 0
         /\ list' = <<>>
         /\ y' = GAME_HEIGHT \div 2 /\ velocity' = 0
         /\ highScore' = highScore /\ bestLevel' = bestLevel]_vars

\* a round restarted after a round in which pipes were passed
C5_Witness ==
    /\ current = PLAYING /\ frame = 0 /\ score = 0 /\ list = <<>>
    /\ highScore > 0

\* C6: outside GAME_OVER the R key changes nothing.
C6_RestartGated ==
    current # GAME_OVER => keydown(Here, "KeyR") = Here

\* a paused round with pipes passed, which a restart would wipe
C6_Witness ==
    /\ current = PAUSED /\ score > 0 /\ list # <<>>
    /\ restart(Here) # Here

\* C7: outside PLAYING toilet.update, pipes.update and the whole frame
\* change nothing.
C7_TicksFrozen ==
    current # PLAYING =>
        \A r \in RandomPercents :
            /\ toiletUpdate(Here) = Here
            /\ pipesUpdate(Here, r) = Here
            /\ gameLoop(Here, r) = Here

\* the round is over on a frame on which pipes.update would spawn
C7_Witness ==
    /\ current = GAME_OVER
    /\ list # <<>>
    /\ frame % getCurrentSpawnInterval(level) = 0

\* C8: no step into, within or out of PAUSED changes y, velocity, frame,
\* the pipe list, score, level or pipesPassed.
C8_PauseFreezes ==
    [][(current = PAUSED \/ current' = PAUSED) => round' = round]_vars

\* paused in mid-flight with pipes on screen
C8_Witness ==
    /\ current = PAUSED /\ velocity < 0 /\ list # <<>> /\ score > 0

\* C9: level = floor(pipesPassed / pipesPerLevel) + 1 in every state, and
\* only restart lowers level.
C9_LevelFormula ==
    [][/\ level = (pipesPassed \div pipesPerLevel) + 1
       /\ level' = (pipesPassed' \div pipesPerLevel) + 1
       /\ ~RestartStep => level' >= level]_vars

\* the ninth pipe passed, on level 2
C9_Witness == pipesPassed = pipesPerLevel + 1 /\ level = 2

\* C10: the level is floor(pipesPassed / 5) + 1, as the help overlay says.
C10_LevelEveryFivePipes == level = (pipesPassed \div 5) + 1

\* the height of the ground line and the lowest y of the toilet
floorY == GAME_HEIGHT - groundHeight

\* C11: in every state velocity <= maxVelocity, and one more toilet.update
\* keeps it so.
C11_VelocityClamped ==
    /\ velocity <= maxVelocity
    /\ toiletUpdate(Here).velocity <= maxVelocity

\* 24 ticks of free fall after a restart: 23 * 30 + 30 would be 720
C11_Witness == current = PLAYING /\ frame = 24 /\ velocity = maxVelocity

\* C12: toilet.update in PLAYING integrates the velocity (gravity added,
\* clamped) into y; if that y is below 0 it sets y to 0, if that y + height
\* is beyond floorY it sets y to floorY - height, and in both cases velocity
\* becomes 0 and the mode GAME_OVER; otherwise it keeps the mode.
C12_BoundaryClamp ==
    current = PLAYING =>
        LET v1 == Min(velocity + gravity, maxVelocity)
            yi == y + v1
            t == toiletUpdate(Here)
        IN  /\ yi < 0 =>
                t.y = 0 /\ t.velocity = 0 /\ t.current = GAME_OVER
            /\ yi + toilet_height > floorY =>
                /\ t.y = floorY - toilet_height
                /\ t.velocity = 0 /\ t.current = GAME_OVER
            /\ (yi >= 0 /\ yi + toilet_height <= floorY) =>
                t.y = yi /\ t.velocity = v1 /\ t.current = PLAYING

\* the round ended at the ceiling
C12_Witness == current = GAME_OVER /\ y = 0 /\ velocity = 0 /\ hits = 1

\* C13: in every state 0 <= y <= floorY - height.
C13_YInRange == 0 <= y /\ y <= floorY - toilet_height

\* a second round, after one that ended at the ceiling, ended on the ground
C13_Witness == current = GAME_OVER /\ y = floorY - toilet_height

\* the toilet's box at height ty and the pipe's box overlap horizontally
OverlapsX(pipe) ==
    toilet_x + toilet_width > pipe.x /\ toilet_x < pipe.x + pipeWidth

\* the toilet's box at height ty reaches into the top or the bottom barrier
Intrudes(ty, pipe) ==
    ty < pipe.topHeight \/ ty + toilet_height > pipe.bottomY

\* toilet.update will end the round at the ceiling or on the ground
HitsBoundary ==
    LET yi == y + Min(velocity + gravity, maxVelocity)
    IN  yi < 0 \/ yi + toilet_height > floorY

\* the step is one frame of a round being played
PlayingTick == current = PLAYING /\ frame' = frame + 1

\* C14: checkCollision(pipe) is true exactly when the toilet's box overlaps
\* the pipe's horizontally and reaches into one of its barriers: never with
\* the box inside the gap, never without horizontal overlap; and a tick of a
\* round ends the round exactly when the toilet hits the ceiling or the
\* ground or, moved, collides so with one of the moved pipes.
C14_CollisionIff ==
    [][/\ \A i \in DOMAIN list :
              /\ checkCollision(Here, list[i])
                     <=> (OverlapsX(list[i]) /\ Intrudes(y, list[i]))
              /\ (y >= list[i].topHeight
                  /\ y + toilet_height <= list[i].bottomY)
                     => ~checkCollision(Here, list[i])
              /\ (toilet_x + toilet_width <= list[i].x
                  \/ toilet_x >= list[i].x + pipeWidth)
                     => ~checkCollision(Here, list[i])
       /\ PlayingTick =>
              (current' = GAME_OVER
                   <=> \/ HitsBoundary
                       \/ \E i \in DOMAIN list' :
                              OverlapsX(list'[i]) /\ Intrudes(y', list'[i]))]_vars

\* a tick has moved the toilet into the top barrier of a pipe abreast of it
C14_Witness ==
    /\ current = GAME_OVER
    /\ frame % getCurrentSpawnInterval(level) = 0
    /\ \E i \in DOMAIN list :
           /\ OverlapsX(list[i])
           /\ y < list[i].topHeight
           /\ y + toilet_height > list[i].topHeight

\* C15: every pipe of the list after a step is a pipe of the list before it
\* with the same topHeight and bottomY, moved left by the speed of the tick
\* or not moved, or is the pipe the tick spawned, whose bottomY - topHeight
\* is the gap of the level at the start of that tick; so the gap of a pipe
\* is the gap of a level the round has been on, whatever the level is now.
C15_GeometryFixedAtSpawn ==
    [][/\ \A j \in DOMAIN list' :
              \/ \E i \in DOMAIN list :
                     /\ list'[j].topHeight = list[i].topHeight
                     /\ list'[j].bottomY = list[i].bottomY
                     /\ list'[j].x \in {list[i].x,
                                        list[i].x - getCurrentSpeed(level)}
              \/ /\ PlayingTick
                 /\ j = Len(list')
                 /\ list'[j].x = GAME_WIDTH - getCurrentSpeed(level)
                 /\ list'[j].bottomY - list'[j].topHeight = getCurrentGap(level)
       /\ \A i \in DOMAIN list :
              \E lv \in 1 .. level :
                  list[i].bottomY - list[i].topHeight = getCurrentGap(lv)]_vars

\* on level 3, a pipe spawned on level 2 is still on the screen
C15_Witness ==
    /\ level = 3
    /\ \E i \in DOMAIN list :
           list[i].bottomY - list[i].topHeight = getCurrentGap(2)

\* C16: on every level the gap is max(baseGap - (level - 1) * gapDecrement,
\* minGap), the speed min(baseSpeed + (level - 1) * speedIncrement,
\* maxSpeed), the spawn interval max(baseSpawnInterval - (level - 1) *
\* spawnDecrement, minSpawnInterval); on the next level the gap and the
\* interval are not larger and not below their floors, the speed is not
\* smaller and not above maxSpeed, and each is the same once clamped.
C16_DifficultyCurve ==
    LET gapRaw == baseGap - (level - 1) * gapDecrement
        speedRaw == baseSpeed + (level - 1) * speedIncrement
        intervalRaw == baseSpawnInterval - (level - 1) * spawnDecrement
    IN  /\ level >= 1
        /\ getCurrentGap(level) = (IF gapRaw >= minGap THEN gapRaw ELSE minGap)
        /\ getCurrentSpeed(level)
               = (IF speedRaw <= maxSpeed THEN speedRaw ELSE maxSpeed)
        /\ getCurrentSpawnInterval(level)
               = (IF intervalRaw >= minSpawnInterval
                  THEN intervalRaw ELSE minSpawnInterval)
        /\ getCurrentGap(level + 1) <= getCurrentGap(level)
        /\ getCurrentGap(level + 1) >= minGap
        /\ getCurrentSpawnInterval(level + 1) <= getCurrentSpawnInterval(level)
        /\ getCurrentSpawnInterval(level + 1) >= minSpawnInterval
        /\ getCurrentSpeed(level + 1) >= getCurrentSpeed(level)
        /\ getCurrentSpeed(level + 1) <= maxSpeed
        /\ gapRaw <= minGap => getCurrentGap(level + 1) = getCurrentGap(level)
        /\ speedRaw >= maxSpeed
               => getCurrentSpeed(level + 1) = getCurrentSpeed(level)
        /\ intervalRaw <= minSpawnInterval
               => getCurrentSpawnInterval(level + 1)
                      = getCurrentSpawnInterval(level)

\* past all three clamp points a tick has spawned a pipe with the smallest
\* gap and moved it at the highest speed
C16_Witness ==
    /\ baseGap - (level - 1) * gapDecrement < minGap
    /\ baseSpeed + (level - 1) * speedIncrement > maxSpeed
    /\ baseSpawnInterval - (level - 1) * spawnDecrement < minSpawnInterval
    /\ Len(list) = 2
    /\ list[2].x = GAME_WIDTH - maxSpeed
    /\ list[2].bottomY - list[2].topHeight = minGap

\* the step is a tick that moved the pipes, the last of them by one tick
\* from the right edge of the screen: it spawned that pipe
SpawnTick ==
    /\ PlayingTick
    /\ list' # list
    /\ list' # <<>>
    /\ list'[Len(list')].x = GAME_WIDTH - getCurrentSpeed(level)

\* C17: when 40 pipes have been passed the level is 6 and the gap of the
\* level is 190, and a pipe spawned then has bottomY - topHeight = 190.
C17_FortyPipes ==
    [][pipesPassed = 40 =>
           /\ level = 6
           /\ getCurrentGap(level) = 190 * 100
           /\ SpawnTick =>
                  list'[Len(list')].bottomY - list'[Len(list')].topHeight
                      = 190 * 100]_vars

\* a tick that began with 40 pipes passed has spawned a pipe
C17_Witness ==
    /\ pipesPassed = 40
    /\ list # <<>>
    /\ list[Len(list)].x = GAME_WIDTH - getCurrentSpeed(6)
    /\ list[Len(list)].bottomY - list[Len(list)].topHeight = 190 * 100

\* C18: on a tick of a round, pipes.update - run in PLAYING, that is unless
\* toilet.update has just ended the round - appends exactly one pipe when
\* frame % getCurrentSpawnInterval() = 0, for the level at the start of the
\* tick, and none otherwise (the list grows by that and shrinks by the pipes
\* that left the screen); on frame 0 of every round the tick spawns the
\* round's first pipe.
C18_SpawnCadence ==
    [][PlayingTick =>
           LET sp == getCurrentSpeed(level)
               runs == toiletUpdate(Here).current = PLAYING
               gone == IF runs
                       THEN Cardinality({i \in DOMAIN list :
                                list[i].x - sp + pipeWidth < 0})
                       ELSE 0
               spawns == runs /\ frame % getCurrentSpawnInterval(level) = 0
           IN  /\ Len(list') = Len(list) - gone + (IF spawns THEN 1 ELSE 0)
               /\ spawns <=> SpawnTick
               /\ frame = 0 => (SpawnTick /\ Len(list') = 1)]_vars

\* the first tick of a round begun by restart has spawned its first pipe
C18_Witness ==
    /\ frame = 1 /\ highScore > 0
    /\ Len(list) = 1 /\ list[1].x = GAME_WIDTH - baseSpeed

\* the largest topHeight spawn allows for a gap: worldHeight - groundHeight
\* - gap - 100
MaxTopHeight(gap) == GAME_HEIGHT - groundHeight - gap - 100 * 100

\* C19: on every level the range of topHeight is not empty, and every pipe
\* has 50 <= topHeight <= worldHeight - groundHeight - gap - 100 with gap =
\* bottomY - topHeight the gap of a level the round has been on, so its
\* bottom barrier starts at least 100 above the ground line.
C19_SpawnRange ==
    /\ MaxTopHeight(getCurrentGap(level)) >= 50 * 100
    /\ \A i \in DOMAIN list :
           LET gap == list[i].bottomY - list[i].topHeight
           IN  /\ \E lv \in 1 .. level : gap = getCurrentGap(lv)
               /\ 50 * 100 <= list[i].topHeight
               /\ list[i].topHeight <= MaxTopHeight(gap)
               /\ list[i].bottomY <= floorY - 100 * 100

\* on a level with the smallest gap a tick has spawned a pipe in the top
\* fiftieth of the range
C19_Witness ==
    /\ getCurrentGap(level) = minGap
    /\ Len(list) = 2
    /\ list[2].x = GAME_WIDTH - getCurrentSpeed(level)
    /\ list[2].topHeight
           >= MaxTopHeight(minGap) - (MaxTopHeight(minGap) - 50 * 100) \div 50

\* C20: flap in START or PLAYING sets velocity to flapPower, leaves y as it
\* is and leaves the mode PLAYING (from START it moves there); in GAME_OVER
\* flap changes nothing at all.
C20_FlapSemantics ==
    LET f == flap(Here)
    IN  /\ current \in {START, PLAYING} =>
            /\ f.velocity = flapPower
            /\ f.y = y
            /\ f.current = PLAYING
        /\ current = GAME_OVER => f = Here

\* a flap in mid-flight: the velocity is the impulse, y is where the ticks
\* before have brought it
C20_Witness ==
    /\ current = PLAYING /\ frame > 0
    /\ velocity = flapPower
    /\ y > GAME_HEIGHT \div 2

\* C21: no failure of the store stops the program: the script has run to
\* its end and gameLoop keeps requesting its next frame, in every state.
C21_StoreFailureContained == scriptRan /\ looping

\* C22: from y = 0 and velocity = 0 in PLAYING, the first tick without a
\* flap gives velocity 0.3 and y = 0.3, the second velocity 0.6 and y = 0.9,
\* and neither ends the round: the mode stays PLAYING and no hit is played.
C22_TwoTicksFromTop ==
    [][/\ (current = PLAYING /\ frame = 0 /\ y = 0 /\ velocity = 0) =>
              /\ velocity' = 30 /\ y' = 30
              /\ current' = PLAYING /\ hits' = 0
       /\ (current = PLAYING /\ frame = 1 /\ y = 30 /\ velocity = 30) =>
              /\ velocity' = 60 /\ y' = 90
              /\ current' = PLAYING /\ hits' = 0]_vars

\* the two ticks from the ceiling have been taken
C22_Witness ==
    current = PLAYING /\ frame = 2 /\ y = 90 /\ velocity = 60 /\ hits = 0

\* a tick in which toilet.update leaves the round running and pipes.update
\* ends it
PipeHitTick ==
    /\ PlayingTick
    /\ toiletUpdate(Here).current = PLAYING
    /\ current' = GAME_OVER

\* the x of every pipe of a list, in list order
Xs(l) == [i \in 1 .. Len(l) |-> l[i].x]

OnScreen(x) == x + pipeWidth >= 0

\* C23: on a tick in which pipes.update detects a collision, every pipe of
\* the list, and the pipe spawned in that tick if there is one, is moved left
\* by the speed of the level the tick started with, and the pipes that are
\* then off-screen, and only those, are removed.
C23_SweepNotCutShort ==
    [][PipeHitTick =>
          LET speed == getCurrentSpeed(level)
              pre == Xs(list) \o
                     (IF frame % getCurrentSpawnInterval(level) = 0
                      THEN <<GAME_WIDTH>> ELSE <<>>)
              moved == [i \in 1 .. Len(pre) |-> pre[i] - speed]
          IN  Xs(list') = SelectSeq(moved, OnScreen)]_vars

\* a round ended by a pipe that is not the first of the list: the sweep, which
\* runs from the last pipe to the first, had pipes left after the collision
C23_Witness ==
    /\ current = GAME_OVER
    /\ y > 0
    /\ y + toilet_height < GAME_HEIGHT - 5000
    /\ \E i \in 2 .. Len(list) : checkCollision(Here, list[i])

\* pipe q is pipe p, where it was or further left
SamePipe(p, q) ==
    q.topHeight = p.topHeight /\ q.bottomY = p.bottomY /\ q.x <= p.x

\* C24: in every state the x of the pipes strictly increases along the list,
\* and every step that leaves pipes in the list keeps the pipes it does not
\* remove in their order, removes pipes only from the front and adds at most
\* one pipe, at the end: the list is in spawn order.
C24_SpawnOrder ==
    /\ [](\A i \in 1 .. Len(list) - 1 : list[i].x < list[i + 1].x)
    /\ [][list' # <<>> =>
             \E k \in 0 .. Len(list) :
                /\ Len(list') \in {Len(list) - k, Len(list) - k + 1}
                /\ \A i \in 1 .. Len(list) - k :
                      SamePipe(list[i + k], list'[i])
                /\ Len(list') = Len(list) - k + 1 =>
                      list'[Len(list')].x = GAME_WIDTH - getCurrentSpeed(level)
          ]_vars

\* three pipes on screen in a round that has changed its speed
C24_Witness == current = PLAYING /\ level >= 2 /\ Len(list) >= 3

\* pipe p of the list is still in the list after the step, where it was or
\* moved by the speed of the tick
Survives(p) ==
    \E j \in 1 .. Len(list') :
        /\ list'[j].topHeight = p.topHeight
        /\ list'[j].bottomY = p.bottomY
        /\ list'[j].x \in {p.x, p.x - getCurrentSpeed(level)}

\* C25: no pipe of the list is ever wholly off the left edge of the screen
\* (x + pipeWidth < 0), and a pipe leaves the list only in a PLAYING tick that
\* moves it to x + pipeWidth < 0, or when a restart empties the list.
C25_RemovedOnlyOffScreen ==
    /\ [](\A i \in 1 .. Len(list) : list[i].x + pipeWidth >= 0)
    /\ [][\/ RestartStep /\ list' = <<>>
          \/ \A i \in 1 .. Len(list) :
                \/ Survives(list[i])
                \/ /\ PlayingTick
                   /\ list[i].x - getCurrentSpeed(level) + pipeWidth < 0]_vars

\* a pipe scored in this round is no longer in the list: it has been removed
C25_Witness ==
    /\ current = PLAYING
    /\ pipesPassed > Cardinality({i \in 1 .. Len(list) : list[i].scored})

\* a tick in which toilet.update ends the round at the ceiling or the ground
BoundaryHitTick ==
    /\ PlayingTick
    /\ toiletUpdate(Here).current = GAME_OVER

\* C26: toilet.update runs before pipes.update, so on a tick in which
\* toilet.update ends the round pipes.update does nothing: the list (no pipe
\* spawned, moved, removed or scored), score, pipesPassed and level are what
\* they were before the tick.
C26_NoPipeUpdateAfterBoundaryHit ==
    [][BoundaryHitTick =>
          /\ list' = list
          /\ score' = score
          /\ pipesPassed' = pipesPassed
          /\ level' = level]_vars

\* a round ended at the ground in a frame in which a pipe was due to spawn
C26_Witness ==
    /\ current = GAME_OVER
    /\ velocity = 0
    /\ y = GAME_HEIGHT - 5000 - toilet_height
    /\ frame > 0
    /\ (frame - 1) % getCurrentSpawnInterval(level) = 0

\* C27: while the help overlay is showing, no key, click or tap changes the
\* mode, the toilet or the round; an input can only close the overlay or
\* toggle mute.  (A PLAYING tick is not an input.)
C27_HelpBlocksInput ==
    [][(showingHelp /\ ~PlayingTick) =>
          /\ current' = current
          /\ velocity' = velocity
          /\ round' = round]_vars

\* C28: score equals pipesPassed in every state: both are incremented by
\* each scoring and both are set to 0 by restart.
C28_ScoreIsPipesPassed == score = pipesPassed

\* a new round running after a round in which points were scored
C28_Witness ==
    current = PLAYING /\ frame > 0 /\ highScore >= 1 /\ pipesPassed = 0

\* the right edge of a pipe at x is left of the toilet
Passed(x) == x + pipeWidth < toilet_x

\* a tick in which pipes.update runs its loop
PipesTick == PlayingTick /\ toiletUpdate(Here).current = PLAYING

\* C29: a pipe leaves the list by the off-screen rule only after it has
\* scored; a pipe of the list has scored exactly when its right edge has
\* passed the toilet; and every tick of pipes.update adds to score the number
\* of pipes whose right edge passes the toilet in that tick.  So score counts
\* the pipes of the round that have passed the toilet.  At every level the
\* speed is at most maxSpeed and less than the way from the toilet to the
\* left edge, so no tick takes a pipe from not passed to off-screen.
C29_ScoreCountsPassedPipes ==
    /\ [](\A lv \in 1 .. MaxLevel :
            getCurrentSpeed(lv) <= maxSpeed /\ getCurrentSpeed(lv) < toilet_x)
    /\ [](\A i \in 1 .. Len(list) : list[i].scored <=> Passed(list[i].x))
    /\ [][\/ RestartStep /\ list' = <<>>
          \/ \A i \in 1 .. Len(list) : Survives(list[i]) \/ list[i].scored
         ]_vars
    /\ [][PipesTick =>
             score' = score + Cardinality(
                 {j \in 1 .. Len(list') :
                     /\ Passed(list'[j].x)
                     /\ ~Passed(list'[j].x + getCurrentSpeed(level))})]_vars

\* a round in which one pipe that has passed the toilet is still on screen
\* and an earlier one has been removed
C29_Witness ==
    /\ current = PLAYING
    /\ \E i \in 1 .. Len(list) : list[i].scored
    /\ score > Cardinality({i \in 1 .. Len(list) : Passed(list[i].x)})

\* C30: no step lowers highScore or bestLevel, and bestLevel >= level in
\* every state, in the middle of a round too, from the defaults and from
\* valid saved data.
C30_RecordsMonotone ==
    /\ [][highScore' >= highScore /\ bestLevel' >= bestLevel]_vars
    /\ [](bestLevel >= level)

\* the first round after loading a best level of 2 has reached level 3
C30_Witness ==
    /\ current = PLAYING
    /\ saved.kind = "data"
    /\ saved.bestLevel = 2
    /\ level = 3
    /\ bestLevel = 3

\* C31: in every state flapPower <= velocity <= maxVelocity (-6.5 .. 7): a
\* flap sets the velocity to flapPower whatever it was, so flaps in a row do
\* not add up.
C31_VelocityInRange == flapPower <= velocity /\ velocity <= maxVelocity

\* a flap three ticks after the flap that started the round, while the toilet
\* was still rising
C31_Witness == current = PLAYING /\ frame = 3 /\ velocity = flapPower

\* the toilet lies on the ground clamp
OnGround == y = GAME_HEIGHT - 5000 - toilet_height

\* the toilet lies on the ceiling clamp
OnCeiling == y = 0

\* the toilet overlaps a pipe of the list
InPipe == \E i \in 1 .. Len(list) : checkCollision(Here, list[i])

\* C32 as stated: a round that gets no input ends within MaxIdleTicks ticks,
\* and it ends by a ground or a pipe collision.
C32_EndsByGroundOrPipe ==
    /\ (current = PLAYING) ~> (current = GAME_OVER)
    /\ [](frame <= MaxIdleTicks)
    /\ [](current = GAME_OVER => OnGround \/ InPipe)

\* C32: a round that gets no input ends: with gameLoop running on every
\* frame, PLAYING leads to GAME_OVER within MaxIdleTicks ticks, and it ends
\* by a ground, a ceiling or a pipe collision.
C32_IdleRoundEnds ==
    /\ (current = PLAYING) ~> (current = GAME_OVER)
    /\ [](frame <= MaxIdleTicks)
    /\ [](current = GAME_OVER => OnGround \/ OnCeiling \/ InPipe)

\* a round ended at the ceiling: the toilet was rising from a flap when the
\* input stopped
C32_Witness ==
    current = GAME_OVER /\ OnCeiling /\ velocity = 0 /\ hits = 1 /\ frame > 0

\* C33: the background music is playing exactly when the mode is PLAYING and
\* the sound is not muted.
C33_MusicIffPlaying == bgMusic <=> (current = PLAYING /\ ~isMuted)

====
